---- MODULE Spec2Model ----
(***************************************************************************)
(* Model of the inversive congruential generator of src/ICG.h, src/ICG.cpp *)
(*                                                                         *)
(* One ICG object is modelled.  The variable icg holds its fields under    *)
(* the names of src/ICG.h:94-99.  Every public member function is one      *)
(* action; the private helpers are operators computed the way the code     *)
(* computes them.                                                          *)
(*                                                                         *)
(* Integer widths.  The fields are unsigned long long, the parameters and  *)
(* the helpers' locals unsigned long, and inverse() computes its Bezout    *)
(* coefficients in long long.  On an LP64 build (Linux, 64 bit) the three  *)
(* types have the same width, 64 bits.  TLC's integers are 32 bits wide,   *)
(* so the model keeps the three widths equal, as on LP64, and scales them  *)
(* down to WordBits: unsigned values wrap modulo 2^WordBits, signed values *)
(* live in [-2^(WordBits-1), 2^(WordBits-1)).                              *)
(* A double has a significand of 53 bits, less than the 64 bits of the     *)
(* integers converted to it; the model scales it down to MantBits, less    *)
(* than WordBits, and rounds to nearest, ties to even, in the conversion.  *)
(*                                                                         *)
(* Doubles.  Every double the code computes from the generator is a        *)
(* rational with denominator p, or the Box-Muller value r * u with         *)
(* r = sqrt(-2 ln q / q).  The model keeps rationals exactly and keeps a   *)
(* Box-Muller value symbolically as the pair (u, u') it was computed from. *)
(* The comparisons the code makes on doubles (q <= EPS, q > 1) are decided *)
(* exactly: on a valid generator p is an odd prime, q is never 1 and it    *)
(* differs from both thresholds by at least 1/p^2, far above the rounding  *)
(* error of double arithmetic for the moduli of the model; on an invalid   *)
(* generator q is 0.                                                       *)
(***************************************************************************)
EXTENDS Integers, FiniteSets, Sequences, TLC

VARIABLES icg, lastOp, ret, hung, fresh

vars == <<icg, lastOp, ret, hung, fresh>>

(***************************************************************************)
(* Bounds of the model                                                     *)
(***************************************************************************)
WordBits == 6       \* scaled width of unsigned long, unsigned long long, long long
MantBits == 5       \* scaled width of the significand of a double
MaxRange == 2       \* rand(range) is called with range in 0..MaxRange

PVals == {3, 7, 9, 11}            \* primes and composites passed as p
AVals == {0, 3, 8}                \* values passed as a
BVals == {0, 2, 36}               \* values passed as b
SeedVals == {0, 1, 36}            \* values passed as seed / newSeed
EndVals == {-1, 1}                \* interval ends passed to randInterval

(***************************************************************************)
(* Machine integers                                                        *)
(***************************************************************************)
WordMod == 2 ^ WordBits

\* value of an unsigned long / unsigned long long expression
ToUnsigned(x) == x % WordMod

\* value of a long long expression (two's complement)
ToSigned(x) == IF (x % WordMod) >= WordMod \div 2 THEN (x % WordMod) - WordMod ELSE x % WordMod

\* the unit in the last place of the double nearest to the integer x
RECURSIVE DoubleUlp(_)
DoubleUlp(x) == IF x < 2 ^ MantBits THEN 1 ELSE 2 * DoubleUlp(x \div 2)

\* ( double ) x for an unsigned integer x: x rounded to MantBits significant
\* bits, to nearest, ties to the even significand
ToDouble(x) ==
    LET u == DoubleUlp(x)
        lo == (x \div u) * u
        rem == x - lo
    IN  IF 2 * rem < u THEN lo
        ELSE IF 2 * rem > u THEN lo + u
        ELSE IF (x \div u) % 2 = 0 THEN lo ELSE lo + u

(***************************************************************************)
(* Values returned to the caller                                           *)
(*   int      n                 an unsigned long                            *)
(*   bool     n = 1 for true                                                *)
(*   rat      n / d             a double with an exact rational value       *)
(*   normal   r(q) * n / d      q = (n/d)^2 + (n2/d2)^2, r = sqrt(-2 ln q/q)*)
(*   indeterminate              a double read before it was ever written;   *)
(*                              n = 0: its bits happen to be 0.0            *)
(***************************************************************************)
IntVal(v) == [kind |-> "int", n |-> v, d |-> 1, n2 |-> 0, d2 |-> 1]
BoolVal(v) == [kind |-> "bool", n |-> IF v THEN 1 ELSE 0, d |-> 1, n2 |-> 0, d2 |-> 1]
RatVal(num, den) == [kind |-> "rat", n |-> num, d |-> den, n2 |-> 0, d2 |-> 1]
NormalVal(u, v) == [kind |-> "normal", n |-> u.n, d |-> u.d, n2 |-> v.n, d2 |-> v.d]
IndetVal(i) == [kind |-> "indeterminate", n |-> i, d |-> 1, n2 |-> 0, d2 |-> 1]
Zero == RatVal(0, 1)

RECURSIVE Gcd(_, _)
Gcd(x, y) == IF y = 0 THEN x ELSE Gcd(y, x % y)

Abs(x) == IF x < 0 THEN -x ELSE x

\* the rational num/den (den > 0) in lowest terms
Rat(num, den) == RatVal(num \div Gcd(Abs(num), den), den \div Gcd(Abs(num), den))

(***************************************************************************)
(* Private helpers                                                         *)
(***************************************************************************)

\* ( unsigned long ) ( sqrt ( pr ) ): the integer part of the square root
SqrtFloor(pr) == CHOOSE r \in 0..pr : r * r <= pr /\ (r + 1) * (r + 1) > pr

\* the while loop of isPrime: trial division by cur, cur + 2, ... up to max
RECURSIVE isPrimeLoop(_, _, _)
isPrimeLoop(pr, cur, max) ==
    IF cur <= max
    THEN IF pr % cur = 0 THEN FALSE ELSE isPrimeLoop(pr, ToUnsigned(cur + 2), max)
    ELSE TRUE

\* isPrime whose trial division stops below the square root (cur < max)
isPrime_BelowSqrt(pr) ==
    IF pr = 0 \/ pr = 1 THEN FALSE
    ELSE IF pr = 2 \/ pr = 3 THEN TRUE
    ELSE IF pr % 2 = 0 THEN FALSE
    ELSE isPrimeLoop(pr, 3, SqrtFloor(pr) - 1)

isPrime(pr) ==
    IF pr = 0 \/ pr = 1 THEN FALSE
    ELSE IF pr = 2 \/ pr = 3 THEN TRUE
    ELSE IF pr % 2 = 0 THEN FALSE
    ELSE isPrimeLoop(pr, 3, SqrtFloor(pr))

\* the first while loop of inverse: extended Euclid on rn, rn1 with the
\* coefficients Rn1, Rn2 of y; the result is Rn1 when the loop is left.
\* q and Rn are long long.  Rn only overflows in the last round (there it is
\* +-p), where it is not used.
RECURSIVE inverseEuclid(_, _, _, _, _)
inverseEuclid(rn, rn1, rn2, Rn1, Rn2) ==
    IF rn2 # 0
    THEN LET r2 == rn % rn1
             q == ToSigned(rn \div rn1)
             Rn == ToSigned(Rn2 - q * Rn1)
         IN  IF r2 # 0
             THEN inverseEuclid(rn1, r2, r2, Rn, Rn1)
             ELSE inverseEuclid(rn, rn1, r2, Rn1, Rn2)
    ELSE Rn1

\* while ( Rn1 < 0 ) Rn1 += p;  Rn1 is long long, p unsigned long long: the
\* sum is formed in unsigned long long and converted back to long long
RECURSIVE inverseNormalize(_, _)
inverseNormalize(Rn1, p) ==
    IF Rn1 < 0 THEN inverseNormalize(ToSigned(ToUnsigned(Rn1) + p), p) ELSE Rn1

inverse(g, y) ==
    IF y = 0 THEN 0
    ELSE IF y = 1 THEN 1
    ELSE IF y >= g.p THEN 0
    ELSE ToUnsigned(inverseNormalize(inverseEuclid(g.p, y, g.p % y, 1, 0), g.p))

\* checkGeneratorIsValid without its first conjunct, p > 3
checkGeneratorIsValid_NoLowerBound(g) ==
    [g EXCEPT !.generatorIsValid =
        isPrime(g.p) /\ (g.a < g.p) /\ (g.b < g.p) /\ (g.seed < g.p)]

\* checkGeneratorIsValid without its last conjunct, seed < p
checkGeneratorIsValid_NoSeedCheck(g) ==
    [g EXCEPT !.generatorIsValid =
        (g.p > 3) /\ isPrime(g.p) /\ (g.a < g.p) /\ (g.b < g.p)]

checkGeneratorIsValid(g) ==
    [g EXCEPT !.generatorIsValid =
        (g.p > 3) /\ isPrime(g.p) /\ (g.a < g.p) /\ (g.b < g.p) /\ (g.seed < g.p)]

(***************************************************************************)
(* Public member functions, as functions of the object g.  A function that *)
(* returns a value yields the record [g |-> object after, ret |-> value].  *)
(***************************************************************************)

\* The constructor's initializer list names generatorIsValid, p, a, b, seed
\* and curRand.  mullerNormal and useMullerNormal are not initialized: an
\* object with automatic or dynamic storage holds whatever umn, mn were in
\* its storage.
\* the constructor without curRand ( seed ) in its initializer list: curRand
\* too holds what the storage held
ICG_CurRandNotInitialized(p, a, b, seed, umn, mn) ==
    checkGeneratorIsValid(
        [generatorIsValid |-> FALSE, p |-> p, a |-> a, b |-> b, seed |-> seed,
         curRand |-> mn.n, mullerNormal |-> mn, useMullerNormal |-> umn])

ICG(p, a, b, seed, umn, mn) ==
    checkGeneratorIsValid(
        [generatorIsValid |-> FALSE, p |-> p, a |-> a, b |-> b, seed |-> seed,
         curRand |-> seed, mullerNormal |-> mn, useMullerNormal |-> umn])

\* reparametrize without the assignment curRand = seed
reparametrize_KeepsCurRand(g, p, a, b, seed) ==
    checkGeneratorIsValid(
        [g EXCEPT !.generatorIsValid = FALSE, !.p = p, !.a = a, !.b = b,
                  !.seed = seed])

reparametrize(g, p, a, b, seed) ==
    checkGeneratorIsValid(
        [g EXCEPT !.generatorIsValid = FALSE, !.p = p, !.a = a, !.b = b,
                  !.seed = seed, !.curRand = seed])

\* reseed without the assignment curRand = seed
reseed_KeepsCurRand(g, newSeed) ==
    checkGeneratorIsValid([g EXCEPT !.generatorIsValid = FALSE, !.seed = newSeed])

\* reseed that gives up on an object that is invalid already
reseed_StaysInvalid(g, newSeed) ==
    IF ~g.generatorIsValid THEN g
    ELSE checkGeneratorIsValid(
            [g EXCEPT !.generatorIsValid = FALSE, !.seed = newSeed, !.curRand = newSeed])

reseed(g, newSeed) ==
    checkGeneratorIsValid(
        [g EXCEPT !.generatorIsValid = FALSE, !.seed = newSeed, !.curRand = newSeed])

\* rand whose branch for curRand = 0 returns b without storing it
rand_ZeroKeepsCurRand(g) ==
    IF ~g.generatorIsValid THEN [g |-> g, ret |-> 0]
    ELSE IF g.curRand = 0
         THEN [g |-> g, ret |-> g.b]
         ELSE LET inv == inverse(g, g.curRand)
                  temp == ToUnsigned(g.a * inv + g.b) % g.p
              IN  [g |-> [g EXCEPT !.curRand = temp], ret |-> temp]

\* rand without its first line, the early return of an invalid generator
rand_NoValidityCheck(g) ==
    IF g.curRand = 0
    THEN [g |-> [g EXCEPT !.curRand = g.b], ret |-> g.b]
    ELSE LET inv == inverse(g, g.curRand)
             temp == ToUnsigned(g.a * inv + g.b) % g.p
         IN  [g |-> [g EXCEPT !.curRand = temp], ret |-> temp]

\* rand whose intermediate temp has half the width of the fields
rand_HalfWidthTemp(g) ==
    IF ~g.generatorIsValid THEN [g |-> g, ret |-> 0]
    ELSE IF g.curRand = 0
         THEN [g |-> [g EXCEPT !.curRand = g.b], ret |-> g.b]
         ELSE LET inv == inverse(g, g.curRand)
                  temp == ((g.a * inv + g.b) % (2 ^ (WordBits \div 2))) % g.p
              IN  [g |-> [g EXCEPT !.curRand = temp], ret |-> temp]

rand(g) ==
    IF ~g.generatorIsValid THEN [g |-> g, ret |-> 0]
    ELSE IF g.curRand = 0
         THEN [g |-> [g EXCEPT !.curRand = g.b], ret |-> g.b]
         ELSE LET inv == inverse(g, g.curRand)
                  temp == ToUnsigned(g.a * inv + g.b) % g.p
              IN  [g |-> [g EXCEPT !.curRand = temp], ret |-> temp]

\* a rand() call on g reaches the call inverse ( curRand ): the generator is
\* valid and curRand is not 0
InverseCalled(g) == g.generatorIsValid /\ g.curRand # 0

rand01(g) ==
    IF ~g.generatorIsValid THEN [g |-> g, ret |-> Zero]
    ELSE LET r == rand(g) IN [g |-> r.g, ret |-> Rat(ToDouble(r.ret), ToDouble(g.p))]

\* ( unsigned long ) ( rand01 ( ) * range )
randRange(g, range) ==
    LET r == rand01(g) IN [g |-> r.g, ret |-> (r.ret.n * range) \div r.ret.d]

\* randInterval without the early return for B == A
randInterval_NoEqualEndsCheck(g, A, B) ==
    IF ~g.generatorIsValid THEN [g |-> g, ret |-> Zero]
    ELSE LET lo == IF B < A THEN B ELSE A
             hi == IF B < A THEN A ELSE B
             r == rand(g)
             u == Rat(ToDouble(r.ret), ToDouble(g.p))
         IN  [g |-> r.g, ret |-> Rat(u.n * (hi - lo) + lo * u.d, u.d)]

randInterval(g, A, B) ==
    IF ~g.generatorIsValid THEN [g |-> g, ret |-> Zero]
    ELSE IF B = A THEN [g |-> g, ret |-> RatVal(A, 1)]
    ELSE LET lo == IF B < A THEN B ELSE A
             hi == IF B < A THEN A ELSE B
             r == rand(g)
             u == Rat(ToDouble(r.ret), ToDouble(g.p))
         IN  [g |-> r.g, ret |-> Rat(u.n * (hi - lo) + lo * u.d, u.d)]

\* q = u1 * u1 + u2 * u2 as the fraction QNum / QDen over the common
\* denominator of u1 and u2
Lcm(x, y) == (x * y) \div Gcd(x, y)
QNum(u1, u2) ==
    LET D == Lcm(u1.d, u2.d)
        x == u1.n * (D \div u1.d)
        y == u2.n * (D \div u2.d)
    IN  x * x + y * y
QDen(u1, u2) == Lcm(u1.d, u2.d) * Lcm(u1.d, u2.d)

\* the loop condition q <= EPS || q > 1.0, EPS = 0.0001
Rejected(u1, u2) ==
    \/ QNum(u1, u2) <= QDen(u1, u2) \div 10000
    \/ QNum(u1, u2) > QDen(u1, u2)

\* The do-while loop of randStdNorm, entered with the object g.  The object
\* is all the state the loop has and one round is a function of it, so the
\* loop never ends exactly when a round that rejects leaves the object in a
\* state an earlier round left it in; seen holds those states.
RECURSIVE randStdNormLoop(_, _)
randStdNormLoop(g, seen) ==
    LET r1 == randInterval(g, -1, 1)
        r2 == randInterval(r1.g, -1, 1)
        u1 == r1.ret
        u2 == r2.ret
    IN  IF ~Rejected(u1, u2)
        THEN [g |-> [r2.g EXCEPT !.mullerNormal = NormalVal(u2, u1),
                                 !.useMullerNormal = TRUE],
              ret |-> NormalVal(u1, u2), hung |-> FALSE]
        ELSE IF r2.g \in seen
             THEN [g |-> r2.g, ret |-> Zero, hung |-> TRUE]
             ELSE randStdNormLoop(r2.g, seen \cup {r2.g})

\* hung: the call never returns
randStdNorm(g) ==
    IF g.useMullerNormal
    THEN [g |-> [g EXCEPT !.useMullerNormal = FALSE], ret |-> g.mullerNormal, hung |-> FALSE]
    ELSE randStdNormLoop(g, {g})

(***************************************************************************)
(* State                                                                   *)
(*   icg     the fields of the ICG object                                  *)
(*   lastOp  the member function called last                               *)
(*   ret     the value it returned                                         *)
(*   hung    the last call is randStdNorm and it never returns             *)
(*   fresh   after reseed(s): a second object, constructed as              *)
(*           ICG(p, a, b, s), that takes every rand() call icg takes       *)
(***************************************************************************)
NoVal == [kind |-> "void", n |-> 0, d |-> 1, n2 |-> 0, d2 |-> 1]

\* what storage that was never written may hold
IndetBools == BOOLEAN
IndetDoubles == {IndetVal(0), IndetVal(1)}

NoFresh == [on |-> FALSE, g |-> ICG(0, 0, 0, 0, FALSE, IndetVal(0)), ret |-> NoVal]

Init ==
    /\ \E p \in PVals, a \in AVals, b \in BVals, seed \in SeedVals,
          umn \in IndetBools, mn \in IndetDoubles :
            icg = ICG(p, a, b, seed, umn, mn)
    /\ lastOp = "ICG"
    /\ ret = NoVal
    /\ hung = FALSE
    /\ fresh = NoFresh

Reparametrize(p, a, b, seed) ==
    /\ ~hung
    /\ icg' = reparametrize(icg, p, a, b, seed)
    /\ lastOp' = "reparametrize"
    /\ ret' = BoolVal(icg'.generatorIsValid)
    /\ fresh' = NoFresh
    /\ UNCHANGED hung

Reseed(newSeed) ==
    /\ ~hung
    /\ icg' = reseed(icg, newSeed)
    /\ lastOp' = "reseed"
    /\ ret' = BoolVal(icg'.generatorIsValid)
    /\ fresh' = [on |-> TRUE,
                 g |-> ICG(icg.p, icg.a, icg.b, newSeed, FALSE, IndetVal(0)),
                 ret |-> NoVal]
    /\ UNCHANGED hung

Rand ==
    /\ ~hung
    /\ LET r == rand(icg) IN icg' = r.g /\ ret' = IntVal(r.ret)
    /\ lastOp' = "rand"
    /\ fresh' = IF fresh.on
                THEN LET f == rand(fresh.g)
                     IN  [on |-> TRUE, g |-> f.g, ret |-> IntVal(f.ret)]
                ELSE NoFresh
    /\ UNCHANGED hung

RandRange(range) ==
    /\ ~hung
    /\ LET r == randRange(icg, range) IN icg' = r.g /\ ret' = IntVal(r.ret)
    /\ lastOp' = "randRange"
    /\ fresh' = NoFresh
    /\ UNCHANGED hung

Rand01 ==
    /\ ~hung
    /\ LET r == rand01(icg) IN icg' = r.g /\ ret' = r.ret
    /\ lastOp' = "rand01"
    /\ fresh' = NoFresh
    /\ UNCHANGED hung

RandInterval(A, B) ==
    /\ ~hung
    /\ LET r == randInterval(icg, A, B) IN icg' = r.g /\ ret' = r.ret
    /\ lastOp' = "randInterval"
    /\ fresh' = NoFresh
    /\ UNCHANGED hung

\* A call that never returns leaves no return value; the caller makes no
\* further call.
RandStdNorm ==
    /\ ~hung
    /\ LET r == randStdNorm(icg)
       IN  icg' = r.g /\ hung' = r.hung /\ ret' = IF r.hung THEN NoVal ELSE r.ret
    /\ lastOp' = "randStdNorm"
    /\ fresh' = NoFresh

Next ==
    \/ \E p \in PVals, a \in AVals, b \in BVals, seed \in SeedVals :
            Reparametrize(p, a, b, seed)
    \/ \E newSeed \in SeedVals : Reseed(newSeed)
    \/ Rand
    \/ \E range \in 0..MaxRange : RandRange(range)
    \/ Rand01
    \/ \E A \in EndVals, B \in EndVals : RandInterval(A, B)
    \/ RandStdNorm

Spec == Init /\ [][Next]_vars

(***************************************************************************)
(* The modular inverse on its own: generators ICG(p, 1, 0, seed) for every *)
(* p up to MaxInverseP, stepped by rand() and reseeded, so that current    *)
(* and with it the argument of inverse takes every value below p.          *)
(***************************************************************************)
MaxInverseP == 37

InitInverse ==
    /\ \E p \in 4..MaxInverseP, seed \in 0..MaxInverseP,
          umn \in IndetBools, mn \in IndetDoubles :
            icg = ICG(p, 1, 0, seed, umn, mn)
    /\ lastOp = "ICG"
    /\ ret = NoVal
    /\ hung = FALSE
    /\ fresh = NoFresh

NextInverse ==
    \/ Rand
    \/ \E newSeed \in 0..MaxInverseP : Reseed(newSeed)

SpecInverse == InitInverse /\ [][NextInverse]_vars

(***************************************************************************)
(* rand(range) and rand01() on their own: generators ICG(p, 1, b, 0) for   *)
(* every p up to MaxInverseP, so that p and the values converted to double *)
(* reach beyond 2^MantBits.                                                *)
(***************************************************************************)
RangeBVals == {0, 1, 36}          \* values passed as b

InitRange ==
    /\ \E p \in 4..MaxInverseP, b \in RangeBVals,
          umn \in IndetBools, mn \in IndetDoubles :
            icg = ICG(p, 1, b, 0, umn, mn)
    /\ lastOp = "ICG"
    /\ ret = NoVal
    /\ hung = FALSE
    /\ fresh = NoFresh

NextRange ==
    \/ \E range \in 0..MaxRange : RandRange(range)
    \/ Rand01

SpecRange == InitRange /\ [][NextRange]_vars

(***************************************************************************)
(* Properties                                                              *)
(***************************************************************************)
IsZero(v) == v.kind \in {"int", "rat"} /\ v.n = 0

UniformSamplers == {"rand", "randRange", "rand01", "randInterval"}

\* C1: a call of rand(), rand(range), rand01() or randInterval(A, B) on an
\* invalid generator returns exactly 0 and changes no field of the object,
\* whatever calls came before it.
C1_InvalidSamplersReturnZero ==
    [][(~icg.generatorIsValid /\ lastOp' \in UniformSamplers)
            => (IsZero(ret') /\ icg' = icg)]_vars

\* an invalid generator whose current is not 0 has answered a randInterval
\* call with 0
C1_Witness_RandInterval ==
    ~icg.generatorIsValid /\ lastOp = "randInterval" /\ IsZero(ret) /\ icg.curRand # 0

\* C2: a call of randStdNorm() on an invalid generator returns, returns 0
\* and changes no field of the object, whether or not a spare value is
\* cached.
C2_InvalidStdNormReturnsZero ==
    [][(~icg.generatorIsValid /\ ~hung /\ lastOp' = "randStdNorm")
            => (~hung' /\ IsZero(ret') /\ icg' = icg)]_vars

\* C3: after every reseed and every reparametrize the spare slot is empty.
C3_SpareEmptyAfterReseed ==
    lastOp \in {"reseed", "reparametrize"} => ~icg.useMullerNormal

\* C4: right after construction the spare slot is empty.
C4_SpareEmptyAfterConstruction ==
    lastOp = "ICG" => ~icg.useMullerNormal

\* n is a prime number
IsPrimeNumber(n) == n > 1 /\ \A k \in 2..(n - 1) : n % k # 0

\* C5: in every reachable state of a valid generator p >= 5, p is prime and
\* a, b, seed and current are less than p; every value rand() returns on a
\* valid generator is in [0, p).
C5_ValidFieldsInRange ==
    icg.generatorIsValid =>
        /\ icg.p >= 5
        /\ IsPrimeNumber(icg.p)
        /\ icg.a < icg.p /\ icg.b < icg.p /\ icg.seed < icg.p /\ icg.curRand < icg.p
        /\ lastOp = "rand" => (ret.kind = "int" /\ ret.n \in 0..(icg.p - 1))

\* a valid generator has produced a nonzero value other than its seed
C5_Witness_ValidRand ==
    /\ icg.generatorIsValid /\ lastOp = "rand"
    /\ ret.n = icg.curRand /\ icg.curRand # 0 /\ icg.curRand # icg.seed

\* C6: a rand() call on a valid generator whose current value c is not 0
\* returns (a * z + b) mod p and leaves that value in current, where
\* z = inverse(c) and c * z mod p = 1.
C6_RandRecurrence ==
    [][(icg.generatorIsValid /\ icg.curRand # 0 /\ lastOp' = "rand")
            => LET z == inverse(icg, icg.curRand)
               IN  /\ (icg.curRand * z) % icg.p = 1
                   /\ ret' = IntVal((icg.a * z + icg.b) % icg.p)
                   /\ icg'.curRand = (icg.a * z + icg.b) % icg.p]_vars

\* C7: for a prime p and every y with 0 < y < p, inverse(y) is the z in
\* [1, p) with y * z mod p = 1.
C7_InverseCorrect ==
    icg.generatorIsValid =>
        \A y \in 1..(icg.p - 1) :
            /\ inverse(icg, y) \in 1..(icg.p - 1)
            /\ (y * inverse(icg, y)) % icg.p = 1

\* the validity predicate on the fields of the object
ValidParams(g) ==
    g.p > 3 /\ IsPrimeNumber(g.p) /\ g.a < g.p /\ g.b < g.p /\ g.seed < g.p

C9_ReseedRestart ==
    fresh.on =>
        /\ icg.generatorIsValid = fresh.g.generatorIsValid
        /\ lastOp = "rand" => ret = fresh.ret

\* the second rand() after a reseed(1) of the generator p = 7, a = 3, b = 2
\* has returned 4
C9_Witness_SecondValue ==
    /\ fresh.on /\ lastOp = "rand" /\ ret = IntVal(4)
    /\ icg.p = 7 /\ icg.a = 3 /\ icg.b = 2 /\ icg.seed = 1

\* C10: a randStdNorm() call on a valid generator returns.
C10_StdNormReturns ==
    icg.generatorIsValid => ~hung

MaxCalls == 4       \* length of the rand() sequences that are compared

\* the values n successive rand() calls on the object g return
RECURSIVE RandSeq(_, _)
RandSeq(g, n) ==
    IF n = 0 THEN <<>> ELSE LET r == rand(g) IN <<r.ret>> \o RandSeq(r.g, n - 1)

\* C11: a rand() call on a valid generator whose current is 0 returns b and
\* stores b in current, changing nothing else; the calls that follow return
\* what a generator whose sequence starts at b returns.
C11_ZeroStepThenFromB ==
    [][(icg.generatorIsValid /\ icg.curRand = 0 /\ lastOp' = "rand")
            => /\ ret' = IntVal(icg.b)
               /\ icg' = [icg EXCEPT !.curRand = icg.b]
               /\ RandSeq(icg', MaxCalls) =
                    RandSeq(ICG(icg.p, icg.a, icg.b, icg.b, FALSE, IndetVal(0)),
                            MaxCalls)]_vars

\* the generator p = 7, a = 3, b = 2, seed = 0 has returned b = 2 from
\* current 0, and its next values are 0, 2, 0
C11_Witness_TwoZeroTwoZero ==
    /\ icg.generatorIsValid /\ lastOp = "rand" /\ ret = IntVal(2)
    /\ icg.p = 7 /\ icg.a = 3 /\ icg.b = 2 /\ icg.seed = 0 /\ icg.curRand = 2
    /\ RandSeq(icg, 3) = <<0, 2, 0>>

\* n has an odd divisor d with 3 <= d <= floor(sqrt(n))
HasOddDivisor(n) == \E d \in 3..n : d % 2 = 1 /\ d * d <= n /\ n % d = 0

\* C12: isPrime(n) is true exactly when n is prime, for every n up to the
\* modulus the object was given: false for 0 and 1, true for 2 and 3, false
\* for even n > 2, and for odd n > 3 false exactly when an odd d with
\* 3 <= d <= floor(sqrt(n)) divides n.  A generator whose a, b and seed are
\* below its p > 3 is therefore valid exactly when p is prime.
C12_IsPrimeCorrect ==
    /\ \A n \in 0..icg.p :
        /\ isPrime(n) = IsPrimeNumber(n)
        /\ n \in {0, 1} => ~isPrime(n)
        /\ n \in {2, 3} => isPrime(n)
        /\ (n > 2 /\ n % 2 = 0) => ~isPrime(n)
        /\ (n > 3 /\ n % 2 = 1) => (isPrime(n) = ~HasOddDivisor(n))
    /\ (icg.p > 3 /\ icg.a < icg.p /\ icg.b < icg.p /\ icg.seed < icg.p)
            => (icg.generatorIsValid = IsPrimeNumber(icg.p))

\* the modulus 25, whose only divisor to find is floor(sqrt(25)) itself, was
\* rejected at construction although a, b and seed are below it
C12_Witness_OddSquare ==
    /\ lastOp = "ICG" /\ icg.p = 25 /\ ~icg.generatorIsValid
    /\ icg.a < 25 /\ icg.b < 25 /\ icg.seed < 25

\* C13: rand(range) on a valid generator returns a value in [0, range) when
\* range > 0, and 0 when range = 0.
C13_RandRangeBelowRange ==
    [][\A range \in 0..MaxRange :
         (icg.generatorIsValid /\ RandRange(range))
            => /\ ret'.kind = "int"
               /\ range > 0 => ret'.n \in 0..(range - 1)
               /\ range = 0 => ret'.n = 0]_vars

\* the object g after n successive rand() calls
RECURSIVE RandObj(_, _)
RandObj(g, n) == IF n = 0 THEN g ELSE RandObj(rand(g).g, n - 1)

\* C14: a second generator constructed with the p, a, b, seed of the first,
\* in storage that held anything else, returns the same values at every
\* index of its rand() sequence and has the same current and validity after
\* every equal number of calls.
C14_SameParamsSameSequence ==
    lastOp = "ICG" =>
        \A umn \in IndetBools, mn \in IndetDoubles :
            LET twin == ICG(icg.p, icg.a, icg.b, icg.seed, umn, mn)
            IN  /\ RandSeq(twin, MaxCalls) = RandSeq(icg, MaxCalls)
                /\ \A k \in 0..MaxCalls :
                    /\ RandObj(twin, k).curRand = RandObj(icg, k).curRand
                    /\ RandObj(twin, k).generatorIsValid
                            = RandObj(icg, k).generatorIsValid

\* the generator p = 7, a = 3, b = 2, seed = 1 was constructed in storage
\* whose spare flag reads true; its sequence starts 5, 4, 1
C14_Witness_GarbageTwin ==
    /\ lastOp = "ICG" /\ icg.generatorIsValid /\ icg.useMullerNormal
    /\ icg.mullerNormal = IndetVal(1)
    /\ icg.p = 7 /\ icg.a = 3 /\ icg.b = 2 /\ icg.seed = 1
    /\ RandSeq(icg, 3) = <<5, 4, 1>>

\* C15: a call randInterval(A, A) on a valid generator returns exactly A and
\* changes no field of the object: current does not advance.
C15_EqualEndsNoStep ==
    [][\A A \in EndVals :
         (icg.generatorIsValid /\ lastOp' = "randInterval" /\ RandInterval(A, A))
            => (ret' = RatVal(A, 1) /\ icg' = icg)]_vars

\* randInterval(1, 1) has returned 1 on the valid generator p = 7, a = 3,
\* b = 2 whose current 1 a rand() step would have changed to 5
C15_Witness_OneOne ==
    /\ icg.generatorIsValid /\ lastOp = "randInterval" /\ ret = RatVal(1, 1)
    /\ icg.p = 7 /\ icg.a = 3 /\ icg.b = 2 /\ icg.curRand = 1

\* C16: reseed(s) sets seed and current to s, recomputes validity and
\* changes no other field, whether or not the result is valid; on an object
\* whose p, a, b pass the validity checks, however it became invalid,
\* reseed(s) with s < p gives a valid generator.
C16_ReseedFrame ==
    [][\A s \in SeedVals :
         (lastOp' = "reseed" /\ Reseed(s))
            => /\ icg' = [icg EXCEPT !.seed = s, !.curRand = s,
                                     !.generatorIsValid = icg'.generatorIsValid]
               /\ (icg.p > 3 /\ IsPrimeNumber(icg.p) /\ icg.a < icg.p
                        /\ icg.b < icg.p /\ s < icg.p)
                    => icg'.generatorIsValid]_vars

\* reseed(36) has made an object invalid that still holds p = 7, a = 3,
\* b = 2 and the spare normal value it cached while it was valid
C16_Witness_Invalidated ==
    /\ lastOp = "reseed" /\ ret = BoolVal(FALSE) /\ ~icg.generatorIsValid
    /\ icg.p = 7 /\ icg.a = 3 /\ icg.b = 2 /\ icg.seed = 36 /\ icg.curRand = 36
    /\ icg.mullerNormal.kind = "normal"

\* the least N such that x fits in N bits
RECURSIVE BitLen(_)
BitLen(x) == IF x = 0 THEN 0 ELSE 1 + BitLen(x \div 2)

\* C17: in a rand() call on a valid generator whose current is not 0 the
\* intermediate value a * inverse(current) + b is below 2^(2N), N the number
\* of bits of p; when p fits in half the width of the machine word the
\* computation does not wrap, and the call returns and stores the exact
\* value reduced modulo p.
C17_IntermediateFits ==
    [][(icg.generatorIsValid /\ icg.curRand # 0 /\ lastOp' = "rand")
            => LET v == icg.a * inverse(icg, icg.curRand) + icg.b
               IN  /\ v < 2 ^ (2 * BitLen(icg.p))
                   /\ icg.p <= 2 ^ (WordBits \div 2) - 1
                        => /\ v < WordMod
                           /\ ToUnsigned(v) = v
                           /\ ret' = IntVal(v % icg.p)
                           /\ icg'.curRand = v % icg.p]_vars

\* the generator p = 7, a = 3, b = 2 has returned 0: the intermediate value
\* was 3 * 4 + 2 = 14, which does not fit in the 3 bits of p
C17_Witness_Fourteen ==
    /\ icg.generatorIsValid /\ lastOp = "rand" /\ ret = IntVal(0)
    /\ icg.p = 7 /\ icg.a = 3 /\ icg.b = 2 /\ icg.curRand = 0

\* C18: a randStdNorm() call on a valid generator whose spare slot is empty
\* returns after an even number, at least 2, of rand() steps and leaves the
\* slot full; a call on a valid generator whose slot is full takes no rand()
\* step, leaves current unchanged, returns the cached spare and leaves the
\* slot empty.  Consecutive calls that start from an empty slot therefore
\* alternate.
C18_StdNormAlternates ==
    [][(icg.generatorIsValid /\ ~hung /\ lastOp' = "randStdNorm")
            => IF icg.useMullerNormal
               THEN /\ ~hung'
                    /\ icg' = [icg EXCEPT !.useMullerNormal = FALSE]
                    /\ ret' = icg.mullerNormal
               ELSE /\ ~hung'
                    /\ icg'.useMullerNormal
                    /\ \E k \in 1..icg.p :
                        [icg' EXCEPT !.useMullerNormal = icg.useMullerNormal,
                                     !.mullerNormal = icg.mullerNormal]
                            = RandObj(icg, 2 * k)]_vars

\* C19: in every reachable state, a rand() call that invokes inverse invokes
\* it with an argument y = current with 0 < y < p; inverse is never asked
\* for the inverse of 0 or of a value not below p.
C19_InverseArgInRange ==
    InverseCalled(icg) => (0 < icg.curRand /\ icg.curRand < icg.p)

\* rand() has left current = p - 1 = 10 in a valid generator with p = 11:
\* the next rand() invokes inverse(10)
C19_Witness_LargestArg ==
    /\ lastOp = "rand" /\ InverseCalled(icg) /\ icg.p = 11 /\ icg.curRand = 10

====
